---- MODULE Spec2Model ----
(***************************************************************************)
(* CompressIt (src/script.js): the session state, the DOM fields the       *)
(* handlers read back, and the asynchronous work in flight (file reads,    *)
(* image decodes, debounce timers, canvas.toBlob encodes), one action per  *)
(* event handler or callback.                                              *)
(*                                                                         *)
(* Text is a sequence of one-character strings (a unit name such as "KB"   *)
(* or a media type part such as "image" is one token).  Numbers the code computes in floating point are kept    *)
(* as exact fractions of integers; Math.round is floor(x + 1/2).           *)
(* effect is the outcome of the last handler (an alert, a dropped file     *)
(* ignored, a file offered for download, a canvas drawn and handed to      *)
(* toBlob, a null blob met);                                               *)
(* freshSession and resetMark are history variables; no handler reads      *)
(* any of them.  Writes to DOM nodes that no   *)
(* handler reads back and no property names (the original preview and its  *)
(* size text, the panel's visibility, the format buttons' active class)    *)
(* are left out.                                                           *)
(***************************************************************************)
EXTENDS Integers, Sequences, FiniteSets, Bags

\* ------------------------------------------------------------------ bounds
\* encode requests issued in one behaviour
MaxRequests == 2
\* file reads, image decodes, debounce timers and toBlob calls pending at once
MaxPending == 2

\* ------------------------------------------------------- program constants
DefaultQuality == 80
KiloByte == 1024

\* --------------------------------------------------------------- the inputs
\* null for state.originalFile / state.originalImage
NoFile == 0

\* The files the user can pick or drop: declared media type, byte size,
\* display name and, for images, the decoded width and height.
FileTable ==
    [f \in 1..3 |->
        CASE f = 1 -> [type |-> <<"image", "/", "png">>, size |-> 1000000,
                       name |-> <<"c", "a", "t", ".", "p", "n", "g">>,
                       width |-> 4, height |-> 1]
          [] f = 2 -> [type |-> <<"image", "/", "jpeg">>, size |-> 800,
                       name |-> <<"a", ".", "b", ".", "j", "p", "g">>,
                       width |-> 1, height |-> 4]
          [] f = 3 -> [type |-> <<"text", "/", "plain">>, size |-> 1536,
                       name |-> <<"n", "o", "t", "e", "s">>,
                       width |-> 0, height |-> 0]]

Files == DOMAIN FileTable

\* Slider positions the user can drag to.
QualityValues == {80, 90}

\* data-format of the format buttons the user clicks
Jpeg == <<"image", "/", "jpeg">>
Png == <<"image", "/", "png">>
Formats == {Jpeg, Png}

\* the third format button, and all three
Webp == <<"image", "/", "webp">>
EveryFormat == {Jpeg, Png, Webp}

\* What the user can leave in a dimension field after an edit.
TypedValues == {<<>>, <<"0">>, <<"1">>, <<"2">>, <<"-", "2">>, <<"a">>}

\* Byte sizes the encode capability can return.
BlobSizes == {750000}

\* and a wider choice: nothing, one byte, an eighth more than the 800 bytes
\* of a.b.jpg, either side of 1 KB and of 1 MB, sizes with one and with three
\* decimals in KB, and sizes below and above the 1000000 bytes of cat.png
ResultSizes == {0, 1, 900, 1023, 1152, 1536, 750000, 1048575, 1048576, 1200000}

\* ------------------------------------------------------------ pure helpers
DigitChars == <<"0", "1", "2", "3", "4", "5", "6", "7", "8", "9">>

IsDigit(c) == \E d \in 1..10 : DigitChars[d] = c

DigitValue(c) == (CHOOSE d \in 1..10 : DigitChars[d] = c) - 1

\* String(n) for an integer n
RECURSIVE NumberToString(_)
NumberToString(n) ==
    IF n < 0 THEN <<"-">> \o NumberToString(0 - n)
    ELSE IF n < 10 THEN <<DigitChars[n + 1]>>
    ELSE NumberToString(n \div 10) \o <<DigitChars[(n % 10) + 1]>>

\* the value of the longest prefix of digits of s, given the value so far
RECURSIVE DigitPrefix(_, _)
DigitPrefix(s, acc) ==
    IF s = <<>> \/ ~IsDigit(Head(s)) THEN acc
    ELSE DigitPrefix(Tail(s), acc * 10 + DigitValue(Head(s)))

RECURSIVE SkipSpaces(_)
SkipSpaces(s) == IF s # <<>> /\ Head(s) = " " THEN SkipSpaces(Tail(s)) ELSE s

\* parseInt(s): leading blanks, an optional sign, then decimal digits up to the
\* first other character; NaN when there is no digit.
ParseInt(s) ==
    LET t == SkipSpaces(s)
        neg == t # <<>> /\ Head(t) = "-"
        u == IF t # <<>> /\ Head(t) \in {"-", "+"} THEN Tail(t) ELSE t
    IN IF u = <<>> \/ ~IsDigit(Head(u))
       THEN [nan |-> TRUE, val |-> 0]
       ELSE [nan |-> FALSE,
             val |-> IF neg THEN 0 - DigitPrefix(u, 0) ELSE DigitPrefix(u, 0)]

\* parseInt(s) || fallback: NaN and 0 are falsy
ParseIntOr(s, fallback) ==
    LET p == ParseInt(s) IN IF p.nan \/ p.val = 0 THEN fallback ELSE p.val

\* rounding to the nearest integer with halves away from zero
MathRoundHalfAway(num, den) ==
    IF num >= 0 THEN (2 * num + den) \div (2 * den)
    ELSE 0 - ((2 * (0 - num) + den) \div (2 * den))

\* Math.round(num / den) for den > 0: floor(num/den + 1/2)
MathRound(num, den) == (2 * num + den) \div (2 * den)

\* file.type.startsWith('image/')
IsImageType(f) ==
    LET t == FileTable[f].type IN Len(t) >= 2 /\ t[1] = "image" /\ t[2] = "/"

\* the largest i with k^i <= bytes: Math.floor(Math.log(bytes) / Math.log(k))
RECURSIVE LogFloor(_, _)
LogFloor(bytes, k) == IF bytes < k THEN 0 ELSE 1 + LogFloor(bytes \div k, k)

RECURSIVE Power(_, _)
Power(k, i) == IF i = 0 THEN 1 ELSE k * Power(k, i - 1)

SizeUnits == <<"Bytes", "KB", "MB", "GB">>

\* formatFileSize(bytes) without parseFloat: the two decimals of toFixed(2)
\* are all kept
FormatFileSizeFixed(bytes) ==
    IF bytes = 0 THEN <<"0", " ", "Bytes">>
    ELSE LET i == LogFloor(bytes, KiloByte)
             hundredths == MathRound(bytes * 100, Power(KiloByte, i))
             frac == hundredths % 100
             unit == IF i + 1 <= Len(SizeUnits) THEN SizeUnits[i + 1]
                     ELSE "undefined"
         IN NumberToString(hundredths \div 100)
            \o <<".", DigitChars[(frac \div 10) + 1], DigitChars[(frac % 10) + 1]>>
            \o <<" ", unit>>

\* formatFileSize(bytes): toFixed(2) rounds to hundredths, parseFloat drops the
\* trailing zeros, sizes[i] is undefined past GB.
FormatFileSize(bytes) ==
    IF bytes = 0 THEN <<"0", " ", "Bytes">>
    ELSE LET i == LogFloor(bytes, KiloByte)
             hundredths == MathRound(bytes * 100, Power(KiloByte, i))
             whole == hundredths \div 100
             frac == hundredths % 100
             decimals == IF frac = 0 THEN <<>>
                         ELSE IF frac % 10 = 0
                              THEN <<".", DigitChars[(frac \div 10) + 1]>>
                              ELSE <<".", DigitChars[(frac \div 10) + 1],
                                     DigitChars[(frac % 10) + 1]>>
             unit == IF i + 1 <= Len(SizeUnits) THEN SizeUnits[i + 1]
                     ELSE "undefined"
         IN NumberToString(whole) \o decimals \o <<" ", unit>>

\* the savings text without the test of the sign
SavingsTextUnsigned(compressedSize, originalSize) ==
    LET savedPercent == MathRound((originalSize - compressedSize) * 100, originalSize)
    IN <<"-">> \o NumberToString(savedPercent) \o <<"%">>

\* the text of elements.savings for a compressed and an original byte size
SavingsText(compressedSize, originalSize) ==
    LET savedPercent == MathRound((originalSize - compressedSize) * 100, originalSize)
    IN IF savedPercent >= 0
       THEN <<"-">> \o NumberToString(savedPercent) \o <<"%">>
       ELSE <<"+">> \o NumberToString(0 - savedPercent) \o <<"%">>

\* name.replace(/\.[^/.]+$/, ''): drop a last ".ext" whose ext is not empty and
\* holds no "/"
StripExtension(name) ==
    LET dots == {i \in 1..Len(name) : name[i] = "."}
        last == IF dots = {} THEN 0 ELSE CHOOSE i \in dots : \A j \in dots : j <= i
    IN IF last = 0 \/ last = Len(name)
          \/ \E j \in (last + 1)..Len(name) : name[j] = "/"
       THEN name
       ELSE SubSeq(name, 1, last - 1)

\* format.split('/')[1]
RECURSIVE SplitSlash(_, _)
SplitSlash(s, piece) ==
    IF s = <<>> THEN <<piece>>
    ELSE IF Head(s) = "/" THEN <<piece>> \o SplitSlash(Tail(s), <<>>)
    ELSE SplitSlash(Tail(s), Append(piece, Head(s)))

FormatExtension(format) == SplitSlash(format, <<>>)[2]

\* ------------------------------------------------------------------- state
VARIABLES
    \* the state object
    originalFile, originalImage, compressedBlob, quality, outputFormat,
    aspectRatio, lockAspectRatio,
    \* the DOM the handlers write and read back
    widthInput, heightInput, qualitySlider, qualityValue,
    compressedPreview, compressedInfo, savings,
    \* work in flight
    reading, decoding, timers, inflight, issued,
    \* what the last handler did to the outside, and history
    effect, freshSession, resetMark

stateVars == <<originalFile, originalImage, compressedBlob, quality,
               outputFormat, aspectRatio, lockAspectRatio>>

domVars == <<widthInput, heightInput, qualitySlider, qualityValue,
             compressedPreview, compressedInfo, savings>>

asyncVars == <<reading, decoding, timers, inflight, issued>>

historyVars == <<freshSession, resetMark>>

vars == <<stateVars, domVars, asyncVars, effect, historyVars>>

\* the quality argument of toBlob: undefined, or the fraction num/den
UndefinedQuality == [defined |-> FALSE, num |-> 0, den |-> 1]

\* null for state.compressedBlob; a blob is known by the toBlob call that made
\* it, the image drawn and the format asked for
NoBlob == [id |-> 0, size |-> 0, img |-> NoFile, format |-> <<>>]

\* the outcomes of a handler: none, the alert of handleFile, a drop the drop
\* handler passes over, the file the download link offers, the canvas size
\* and the arguments of a toBlob call, the null blob a toBlob callback was
\* given
Nothing == [kind |-> "nothing"]
Alert == [kind |-> "alert"]
Ignored == [kind |-> "ignored"]
NullBlob == [kind |-> "nullBlob"]
Download(blob, filename) ==
    [kind |-> "download", blob |-> blob, filename |-> filename]
Encode(id, img, width, height, format, q) ==
    [kind |-> "encode", id |-> id, img |-> img, width |-> width,
     height |-> height, format |-> format, quality |-> q]

Init ==
    /\ originalFile = NoFile
    /\ originalImage = NoFile
    /\ compressedBlob = NoBlob
    /\ quality = DefaultQuality
    /\ outputFormat = Jpeg
    /\ aspectRatio = [num |-> 1, den |-> 1]
    /\ lockAspectRatio = TRUE
    /\ widthInput = <<>>
    /\ heightInput = <<>>
    /\ qualitySlider = NumberToString(DefaultQuality)
    /\ qualityValue = NumberToString(DefaultQuality) \o <<"%">>
    /\ compressedPreview = 0
    /\ compressedInfo = <<>>
    /\ savings = <<>>
    /\ reading = EmptyBag
    /\ decoding = EmptyBag
    /\ timers = 0
    /\ inflight = <<>>
    /\ issued = 0
    /\ effect = Nothing
    /\ freshSession = TRUE
    /\ resetMark = 0

\* the callbacks the event loop still owes
Pending == BagCardinality(reading) + BagCardinality(decoding) + timers
           + Len(inflight)

\* ------------------------------------------------------------ compressImage
\* the width and height compressImage gives the canvas
EffectiveWidth(img, wIn) == ParseIntOr(wIn, FileTable[img].width)

EffectiveHeight(img, hIn) == ParseIntOr(hIn, FileTable[img].height)

\* the quality argument without the png branch
ActualQualityOfState(fmt, q) == [defined |-> TRUE, num |-> q, den |-> 100]

\* the quality compressImage passes to toBlob
ActualQuality(fmt, q) ==
    IF fmt = Png THEN UndefinedQuality
    ELSE [defined |-> TRUE, num |-> q, den |-> 100]

\* compressImage() run at the end of a handler whose state is then
\* (img, wIn, hIn, q, fmt): returns early without an image, else draws the
\* canvas and leaves one more toBlob call awaiting its callback
CompressImage(img, wIn, hIn, q, fmt) ==
    IF img = NoFile
    THEN /\ effect' = Nothing
         /\ UNCHANGED <<inflight, issued>>
    ELSE /\ issued < MaxRequests
         /\ issued' = issued + 1
         /\ inflight' = Append(inflight,
                               [id |-> issued + 1, img |-> img, format |-> fmt])
         /\ effect' = Encode(issued + 1, img, EffectiveWidth(img, wIn),
                             EffectiveHeight(img, hIn), fmt,
                             ActualQuality(fmt, q))

\* ------------------------------------------------------------- file loading
\* handleFile(file) with state.originalFile assigned before the type check
HandleFileAssignsFirst(f) ==
    IF ~IsImageType(f)
    THEN /\ originalFile' = f
         /\ effect' = Alert
         /\ UNCHANGED <<originalImage, compressedBlob, quality, outputFormat,
                        aspectRatio, lockAspectRatio, domVars, asyncVars,
                        historyVars>>
    ELSE /\ Pending < MaxPending
         /\ originalFile' = f
         /\ reading' = reading (+) SetToBag({f})
         /\ effect' = Nothing
         /\ UNCHANGED <<originalImage, compressedBlob, quality, outputFormat,
                        aspectRatio, lockAspectRatio, domVars, decoding,
                        timers, inflight, issued, historyVars>>

\* handleFile(file)
HandleFile(f) ==
    IF ~IsImageType(f)
    THEN /\ effect' = Alert
         /\ UNCHANGED <<stateVars, domVars, asyncVars, historyVars>>
    ELSE /\ Pending < MaxPending
         /\ originalFile' = f
         /\ reading' = reading (+) SetToBag({f})
         /\ effect' = Nothing
         /\ UNCHANGED <<originalImage, compressedBlob, quality, outputFormat,
                        aspectRatio, lockAspectRatio, domVars, decoding,
                        timers, inflight, issued, historyVars>>

\* the file input's change handler; files.length > 0
FileInputChange(f) == HandleFile(f)

\* the upload zone's drop handler; f = NoFile is a drop that carries no file
Drop(f) ==
    IF f # NoFile /\ IsImageType(f)
    THEN HandleFile(f)
    ELSE /\ effect' = Ignored
         /\ UNCHANGED <<stateVars, domVars, asyncVars, historyVars>>

\* reader.onload: the data URL is handed to a new Image
ReaderOnload(f) ==
    /\ BagIn(f, reading)
    /\ reading' = reading (-) SetToBag({f})
    /\ decoding' = decoding (+) SetToBag({f})
    /\ effect' = Nothing
    /\ UNCHANGED <<stateVars, domVars, timers, inflight, issued, historyVars>>

\* the image cannot be decoded: no onerror handler is installed
ImgOnerror(f) ==
    /\ BagIn(f, decoding)
    /\ decoding' = decoding (-) SetToBag({f})
    /\ effect' = Nothing
    /\ UNCHANGED <<stateVars, domVars, reading, timers, inflight, issued,
                   historyVars>>

\* img.onload; updateOriginalInfo() throws on a null originalFile and ends
\* the handler before compressImage() runs
ImgOnload(f) ==
    LET w == NumberToString(FileTable[f].width)
        h == NumberToString(FileTable[f].height)
    IN /\ BagIn(f, decoding)
       /\ decoding' = decoding (-) SetToBag({f})
       /\ originalImage' = f
       /\ aspectRatio' = [num |-> FileTable[f].width, den |-> FileTable[f].height]
       /\ widthInput' = w
       /\ heightInput' = h
       /\ IF originalFile = NoFile
          THEN /\ effect' = Nothing
               /\ UNCHANGED <<inflight, issued>>
          ELSE CompressImage(f, w, h, quality, outputFormat)
       /\ UNCHANGED <<originalFile, compressedBlob, quality, outputFormat,
                      lockAspectRatio, qualitySlider, qualityValue,
                      compressedPreview, compressedInfo, savings, reading,
                      timers, historyVars>>

\* ------------------------------------------------------- the toBlob callback
RemoveAt(s, i) == SubSeq(s, 1, i - 1) \o SubSeq(s, i + 1, Len(s))

\* the blob a pending toBlob call r yields when it yields size bytes
BlobOf(r, size) ==
    [id |-> r.id, size |-> size, img |-> r.img, format |-> r.format]

\* updateCompressedInfo(blob.size); reading originalFile.size throws on null
UpdateCompressedInfo(size) ==
    IF originalFile = NoFile
    THEN UNCHANGED <<compressedInfo, savings>>
    ELSE /\ compressedInfo' = FormatFileSize(size)
         /\ savings' = SavingsText(size, FileTable[originalFile].size)

\* the callback without its `if (blob)` test
ToBlobCallbackUnguarded(i, blob) ==
    /\ i \in 1..Len(inflight)
    /\ inflight' = RemoveAt(inflight, i)
    /\ compressedBlob' = blob
    /\ compressedPreview' = blob.id
    /\ UpdateCompressedInfo(blob.size)
    /\ effect' = IF blob # NoBlob THEN Nothing ELSE NullBlob
    /\ UNCHANGED <<originalFile, originalImage, quality, outputFormat,
                   aspectRatio, lockAspectRatio, widthInput, heightInput,
                   qualitySlider, qualityValue, reading, decoding, timers,
                   issued, historyVars>>

\* the callback of the i-th pending toBlob call, given blob (NoBlob is null)
ToBlobCallback(i, blob) ==
    /\ i \in 1..Len(inflight)
    /\ inflight' = RemoveAt(inflight, i)
    /\ IF blob # NoBlob
       THEN /\ compressedBlob' = blob
            /\ compressedPreview' = blob.id
            /\ UpdateCompressedInfo(blob.size)
            /\ effect' = Nothing
       ELSE /\ UNCHANGED <<compressedBlob, compressedPreview, compressedInfo,
                           savings>>
            /\ effect' = NullBlob
    /\ UNCHANGED <<originalFile, originalImage, quality, outputFormat,
                   aspectRatio, lockAspectRatio, widthInput, heightInput,
                   qualitySlider, qualityValue, reading, decoding, timers,
                   issued, historyVars>>

\* ----------------------------------------------------------------- controls
\* debounce(compressImage, wait)(): every call builds a new closure with its
\* own timeout variable, clears that (still unset) timeout and arms a timer;
\* all pending timers run the same compressImage(), so they are counted
Debounce(pending) == pending + 1

\* the quality slider's input handler, the slider now at v
QualityInput(v) ==
    /\ Pending < MaxPending
    /\ qualitySlider' = NumberToString(v)
    /\ quality' = ParseInt(qualitySlider').val
    /\ qualityValue' = NumberToString(quality') \o <<"%">>
    /\ timers' = Debounce(timers)
    /\ freshSession' = FALSE
    /\ effect' = Nothing
    /\ UNCHANGED <<originalFile, originalImage, compressedBlob, outputFormat,
                   aspectRatio, lockAspectRatio, widthInput, heightInput,
                   compressedPreview, compressedInfo, savings, reading,
                   decoding, inflight, issued, resetMark>>

\* the value the width handler writes to the height field
LockedHeight(typed) ==
    LET width == ParseIntOr(typed, FileTable[originalImage].width)
    IN NumberToString(MathRound(width * aspectRatio.den, aspectRatio.num))

\* the value the height handler writes to the width field
LockedWidth(typed) ==
    LET height == ParseIntOr(typed, FileTable[originalImage].height)
    IN NumberToString(MathRound(height * aspectRatio.num, aspectRatio.den))

\* the width field's input handler, the field now holding typed
WidthInput(typed) ==
    /\ Pending < MaxPending
    /\ widthInput' = typed
    /\ heightInput' = IF lockAspectRatio /\ originalImage # NoFile
                      THEN LockedHeight(typed) ELSE heightInput
    /\ timers' = Debounce(timers)
    /\ freshSession' = FALSE
    /\ effect' = Nothing
    /\ UNCHANGED <<stateVars, qualitySlider, qualityValue, compressedPreview,
                   compressedInfo, savings, reading, decoding, inflight,
                   issued, resetMark>>

\* the height field's input handler, the field now holding typed
HeightInput(typed) ==
    /\ Pending < MaxPending
    /\ heightInput' = typed
    /\ widthInput' = IF lockAspectRatio /\ originalImage # NoFile
                     THEN LockedWidth(typed) ELSE widthInput
    /\ timers' = Debounce(timers)
    /\ freshSession' = FALSE
    /\ effect' = Nothing
    /\ UNCHANGED <<stateVars, qualitySlider, qualityValue, compressedPreview,
                   compressedInfo, savings, reading, decoding, inflight,
                   issued, resetMark>>

\* a debounce timer that was cleared: it goes without running compressImage()
TimerCleared ==
    /\ timers > 0
    /\ timers' = timers - 1
    /\ effect' = Nothing
    /\ UNCHANGED <<stateVars, domVars, reading, decoding, inflight, issued,
                   historyVars>>

\* a debounce timer fires: later() runs compressImage()
TimerFires ==
    /\ timers > 0
    /\ timers' = timers - 1
    /\ CompressImage(originalImage, widthInput, heightInput, quality,
                     outputFormat)
    /\ UNCHANGED <<stateVars, domVars, reading, decoding, historyVars>>

\* the checkbox's handler, were it to snap the height field to the width
\* field when the lock is switched on
AspectRatioChangeResnaps(checked) ==
    /\ lockAspectRatio' = checked
    /\ heightInput' = IF checked /\ originalImage # NoFile
                      THEN LockedHeight(widthInput) ELSE heightInput
    /\ freshSession' = FALSE
    /\ effect' = Nothing
    /\ UNCHANGED <<originalFile, originalImage, compressedBlob, quality,
                   outputFormat, aspectRatio, widthInput, qualitySlider,
                   qualityValue, compressedPreview, compressedInfo, savings,
                   asyncVars, resetMark>>

\* the aspect-ratio checkbox's change handler
AspectRatioChange(checked) ==
    /\ lockAspectRatio' = checked
    /\ freshSession' = FALSE
    /\ effect' = Nothing
    /\ UNCHANGED <<originalFile, originalImage, compressedBlob, quality,
                   outputFormat, aspectRatio, domVars, asyncVars, resetMark>>

\* a format button's click handler
FormatClick(fmt) ==
    /\ outputFormat' = fmt
    /\ CompressImage(originalImage, widthInput, heightInput, quality, fmt)
    /\ freshSession' = FALSE
    /\ UNCHANGED <<originalFile, originalImage, compressedBlob, quality,
                   aspectRatio, lockAspectRatio, domVars, reading, decoding,
                   timers, resetMark>>

\* downloadCompressedImage(): returns without a blob; reading
\* originalFile.name throws on null before the link is clicked
DownloadCompressedImage ==
    /\ effect' =
          IF compressedBlob = NoBlob \/ originalFile = NoFile THEN Nothing
          ELSE Download(compressedBlob,
                        StripExtension(FileTable[originalFile].name)
                        \o <<"_compressed", ".">>
                        \o FormatExtension(outputFormat))
    /\ UNCHANGED <<stateVars, domVars, asyncVars, historyVars>>

\* resetCompressor()
ResetCompressor ==
    /\ originalFile' = NoFile
    /\ originalImage' = NoFile
    /\ compressedBlob' = NoBlob
    /\ quality' = DefaultQuality
    /\ outputFormat' = Jpeg
    /\ qualitySlider' = NumberToString(DefaultQuality)
    /\ qualityValue' = NumberToString(DefaultQuality) \o <<"%">>
    /\ widthInput' = <<>>
    /\ heightInput' = <<>>
    /\ freshSession' = TRUE
    /\ resetMark' = issued
    /\ effect' = Nothing
    /\ UNCHANGED <<aspectRatio, lockAspectRatio, compressedPreview,
                   compressedInfo, savings, asyncVars>>

\* ------------------------------------------------------------ specification
\* file events of a session whose user has the files `files` at hand
FileEvents(files) ==
    \/ \E f \in files : FileInputChange(f)
    \/ \E f \in files \cup {NoFile} : Drop(f)
    \/ \E f \in files : ReaderOnload(f)
    \/ \E f \in files : ImgOnload(f)
    \/ \E f \in files : ImgOnerror(f)

\* the encode capability answers a pending toBlob call, with a blob of one of
\* `sizes` bytes or with null
EncodeEventsOf(sizes) ==
    \E i \in 1..Len(inflight) :
       \E blob \in {BlobOf(inflight[i], size) : size \in sizes} \cup {NoBlob} :
          ToBlobCallback(i, blob)

EncodeEvents == EncodeEventsOf(BlobSizes)

\* edits of the dimension fields that leave one of `typed` in the field
DimensionEvents(typed) ==
    \/ \E t \in typed : WidthInput(t)
    \/ \E t \in typed : HeightInput(t)

\* The whole session, with one image and one text file at hand and one value
\* to type.
Next ==
    \/ FileEvents({1, 3})
    \/ EncodeEvents
    \/ \E v \in QualityValues : QualityInput(v)
    \/ DimensionEvents({<<"1">>})
    \/ TimerFires
    \/ \E checked \in BOOLEAN : AspectRatioChange(checked)
    \/ \E fmt \in Formats : FormatClick(fmt)
    \/ DownloadCompressedImage
    \/ ResetCompressor

Spec == Init /\ [][Next]_vars

\* Dimension editing: both images, every typed value; quality and format stay
\* at their defaults and nothing is reset or downloaded.
NextDimensions ==
    \/ FileEvents({1, 2})
    \/ EncodeEvents
    \/ DimensionEvents(TypedValues)
    \/ TimerFires
    \/ \E checked \in BOOLEAN : AspectRatioChange(checked)

SpecDimensions == Init /\ [][NextDimensions]_vars

\* Changing the source: every file, encodes, downloads and resets; the
\* controls are left alone.
NextSources ==
    \/ FileEvents(Files)
    \/ EncodeEvents
    \/ DownloadCompressedImage
    \/ ResetCompressor

SpecSources == Init /\ [][NextSources]_vars

\* Encoding: one image and one text file, the controls that change what is
\* encoded, the timers, the callbacks and resets; the dimension fields are
\* left alone.
NextEncoding ==
    \/ FileEvents({1, 3})
    \/ EncodeEvents
    \/ \E v \in QualityValues : QualityInput(v)
    \/ TimerFires
    \/ \E fmt \in Formats : FormatClick(fmt)
    \/ ResetCompressor

SpecEncoding == Init /\ [][NextEncoding]_vars

\* Formats: one image, all three format buttons, the quality slider and its
\* timers.
NextFormats ==
    \/ FileEvents({1})
    \/ EncodeEvents
    \/ \E v \in QualityValues : QualityInput(v)
    \/ TimerFires
    \/ \E fmt \in EveryFormat : FormatClick(fmt)

SpecFormats == Init /\ [][NextFormats]_vars

\* Sizes: both images, and encodes that come back with every size of
\* ResultSizes.
NextSizes ==
    \/ FileEvents({1, 2})
    \/ EncodeEventsOf(ResultSizes)

SpecSizes == Init /\ [][NextSizes]_vars

\* Changes: one image and every control that changes what is encoded.  The
\* event loop runs a timer that is due and delivers the callback of a toBlob
\* call that has finished: both are weakly fair.
NextChanges ==
    \/ FileEvents({1})
    \/ EncodeEvents
    \/ \E v \in QualityValues : QualityInput(v)
    \/ DimensionEvents({<<"2">>})
    \/ TimerFires
    \/ \E fmt \in Formats : FormatClick(fmt)

SpecChanges ==
    Init /\ [][NextChanges]_vars /\ WF_vars(TimerFires) /\ WF_vars(EncodeEvents)

\* Coupling: the tall image, the aspect-ratio checkbox and every typed value.
NextCoupling ==
    \/ FileEvents({2})
    \/ EncodeEvents
    \/ DimensionEvents(TypedValues)
    \/ TimerFires
    \/ \E checked \in BOOLEAN : AspectRatioChange(checked)

SpecCoupling == Init /\ [][NextCoupling]_vars

\* ------------------------------------------------------------------ claims
\* the OutputParameters of the session: the target dimensions are the two
\* dimension fields
OutputParameters ==
    [quality |-> quality, format |-> outputFormat, targetWidth |-> widthInput,
     targetHeight |-> heightInput, aspectLocked |-> lockAspectRatio]

\* the defaults for the image of file f
DefaultParameters(f) ==
    [quality |-> 80, format |-> Jpeg,
     targetWidth |-> NumberToString(FileTable[f].width),
     targetHeight |-> NumberToString(FileTable[f].height),
     aspectLocked |-> TRUE]

\* C1: a burst of debounced edits yields one encode: when a debounce timer's
\* firing invokes the encode, no other debounce timer is left pending to
\* invoke another (the earlier edits of the burst were superseded, not queued).
C1_BurstYieldsOneEncode ==
    [][(timers' = timers - 1 /\ effect'.kind = "encode") => timers' = 0]_vars

\* C2: last writer wins by issue time: a blob is written to
\* state.compressedBlob only by the callback of the request issued last; the
\* callback of an older request is discarded.
C2_LastWriterWins ==
    [][(compressedBlob' # compressedBlob /\ compressedBlob' # NoBlob)
          => compressedBlob'.id = issued]_vars

\* C3: after every img.onload that runs to its end the OutputParameters are
\* the defaults for the new image.
C3_LoadResetsParameters ==
    [][(originalFile # NoFile /\ \E f \in Files : ImgOnload(f))
          => OutputParameters' = DefaultParameters(originalImage')]_vars

\* C4: in a session where no control has been touched since the start or
\* since the last reset, a loaded image has the OutputParameters of the very
\* first load of that file.
C4_ResetThenLoadIsFirstLoad ==
    (freshSession /\ originalImage # NoFile /\ originalFile = originalImage)
       => OutputParameters = DefaultParameters(originalImage)

\* the files handleFile turns away
NonImages == {f \in Files : ~IsImageType(f)}

PickOfNonImage == \E f \in NonImages : FileInputChange(f)

DropOfNonImage == \E f \in NonImages : Drop(f)

\* a non-image file is in no part of the session
NoNonImageHeld ==
    /\ originalFile \notin NonImages
    /\ originalImage \notin NonImages
    /\ \A f \in NonImages : ~BagIn(f, reading) /\ ~BagIn(f, decoding)

\* C5 as stated: a picked or dropped non-image file is answered with the
\* NotAnImage alert and changes nothing of the session.
C5_NonImageAlertsAndChangesNothing ==
    [][(PickOfNonImage \/ DropOfNonImage)
          => (effect' = Alert /\ UNCHANGED <<stateVars, domVars, asyncVars>>)]_vars

\* C5 amended: a picked or dropped non-image file changes nothing of the
\* session and issues no encode; the pick is answered with the alert, the
\* drop is passed over without one.
C5_NonImageChangesNothing ==
    /\ []NoNonImageHeld
    /\ [][/\ PickOfNonImage
              => (effect' = Alert /\ UNCHANGED <<stateVars, domVars, asyncVars>>)
          /\ DropOfNonImage
              => (effect' = Ignored /\ UNCHANGED <<stateVars, domVars, asyncVars>>)]_vars

\* a non-image file was just turned away from a session that holds an image
\* and its encoded result
C5_Witness ==
    effect = Alert /\ originalImage # NoFile /\ compressedBlob # NoBlob

\* C6: a toBlob callback given null changes nothing but the list of pending
\* calls: the blob, the preview, the size and savings texts and every
\* parameter stay, and the controls still answer (a quality edit arms its
\* timer, a format click issues an encode, within MaxPending and MaxRequests).
C6_NullBlobChangesNothing ==
    /\ [](effect = NullBlob =>
            /\ Pending < MaxPending
                 => ENABLED (\E v \in QualityValues : QualityInput(v))
            /\ (originalImage # NoFile /\ issued < MaxRequests)
                 => ENABLED (\E fmt \in Formats :
                               FormatClick(fmt) /\ issued' = issued + 1))
    /\ [][(\E i \in 1..Len(inflight) : ToBlobCallback(i, NoBlob))
            => UNCHANGED <<stateVars, domVars, reading, decoding, timers,
                           issued>>]_vars

\* a toBlob callback was just given null while an encoded result was held
C6_Witness == effect = NullBlob /\ compressedBlob # NoBlob

\* a typed value that is a positive integer
IsPositiveInteger(t) ==
    /\ t # <<>>
    /\ \A i \in 1..Len(t) : IsDigit(t[i])
    /\ ParseInt(t).val >= 1

\* C7: with the aspect lock on and an image of native size (W0, H0) loaded,
\* typing a positive integer w as width writes round(w / (W0/H0)) to the
\* height field, never 0; typing h as height writes round(h * (W0/H0)) to
\* the width field, never 0.
C7_LockedDimensionNeverZero ==
    [][(lockAspectRatio /\ originalImage # NoFile) =>
         LET W0 == FileTable[originalImage].width
             H0 == FileTable[originalImage].height
         IN \A t \in TypedValues :
              IsPositiveInteger(t) =>
                /\ WidthInput(t) =>
                      /\ heightInput' = NumberToString(MathRound(ParseInt(t).val * H0, W0))
                      /\ ParseInt(heightInput').val # 0
                /\ HeightInput(t) =>
                      /\ widthInput' = NumberToString(MathRound(ParseInt(t).val * W0, H0))
                      /\ ParseInt(widthInput').val # 0]_vars

\* the effective dimension the claim asks for: the field when it holds a
\* positive integer, else the source dimension
TargetOrSource(field, source) ==
    IF IsPositiveInteger(field) THEN ParseInt(field).val ELSE source

\* C8: every encode is invoked with a width and a height >= 1, each the
\* field's positive integer or else the source dimension.
C8_EffectiveDimensionsPositive ==
    effect.kind = "encode" =>
       /\ effect.width >= 1
       /\ effect.height >= 1
       /\ effect.width = TargetOrSource(widthInput, FileTable[effect.img].width)
       /\ effect.height = TargetOrSource(heightInput, FileTable[effect.img].height)

\* C9: once a file is accepted, no encoded result of another (earlier) source
\* is held in state.compressedBlob, nor offered by the download link.
C9_NewSourceInvalidatesResult ==
    /\ (originalFile # NoFile /\ compressedBlob # NoBlob)
          => compressedBlob.img = originalFile
    /\ effect.kind = "download" => effect.blob.img = originalFile

\* C10: after a reset state.compressedBlob holds no result of an encode
\* issued before that reset.
C10_ResultStaysDiscarded ==
    compressedBlob # NoBlob => compressedBlob.id > resetMark

\* C11: every toBlob call is given the format in state and, for png, no
\* quality (undefined), for any other format state.quality / 100; issuing the
\* call leaves state.quality and what the slider shows as they were.
C11_PngOmitsQuality ==
    /\ [](effect.kind = "encode" =>
            /\ effect.format = outputFormat
            /\ effect.quality =
                  IF outputFormat = Png THEN UndefinedQuality
                  ELSE [defined |-> TRUE, num |-> quality, den |-> 100])
    /\ [][effect'.kind = "encode" =>
            UNCHANGED <<quality, qualitySlider, qualityValue>>]_vars

\* a png encode was just issued with the slider away from its default
C11_Witness ==
    /\ effect.kind = "encode"
    /\ effect.format = Png
    /\ ~effect.quality.defined
    /\ quality = 90

\* a toBlob callback writes the size and savings texts
InfoWritten ==
    /\ compressedBlob' # compressedBlob
    /\ compressedBlob' # NoBlob
    /\ originalFile # NoFile

\* how a percentage p is displayed: a reduction as -p%, an increase as +|p|%
ShownPercent(p) ==
    IF p >= 0 THEN <<"-">> \o NumberToString(p) \o <<"%">>
    ELSE <<"+">> \o NumberToString(0 - p) \o <<"%">>

\* the two integers around (1 - E/S) * 100
PercentCandidates(E, S) ==
    LET f == (100 * (S - E)) \div S IN {f, f + 1}

\* C12: the savings text shows the integer nearest to (1 - E/S) * 100, as a
\* reduction when it is >= 0 and as an increase of its absolute value when
\* negative; 750000 of 1000000 bytes shows -25%, 1200000 shows +20%.
C12_SavingsPercent ==
    [][InfoWritten =>
         LET E == compressedBlob'.size
             S == FileTable[originalFile].size
         IN /\ \E p \in PercentCandidates(E, S) :
                 /\ 2 * (100 * (S - E) - p * S) <= S
                 /\ 2 * (p * S - 100 * (S - E)) <= S
                 /\ savings' = ShownPercent(p)
            /\ (S = 1000000 /\ E = 750000) => savings' = <<"-", "2", "5", "%">>
            /\ (S = 1000000 /\ E = 1200000) => savings' = <<"+", "2", "0", "%">>]_vars

\* an encode that grew the file is shown as an increase
C12_Witness ==
    /\ compressedBlob.size = 1200000
    /\ originalFile = 1
    /\ savings = <<"+", "2", "0", "%">>

\* the position of the first c in text, 0 when there is none
PositionOf(c, text) ==
    IF \E i \in 1..Len(text) : text[i] = c
    THEN CHOOSE i \in 1..Len(text) :
            text[i] = c /\ \A j \in 1..(i - 1) : text[j] # c
    ELSE 0

\* a decimal numeral with at most two decimals and no trailing zero: digits,
\* then nothing or a point and one or two digits, the last of them not 0
IsShortDecimal(num) ==
    LET point == PositionOf(".", num)
        whole == IF point = 0 THEN num ELSE SubSeq(num, 1, point - 1)
        decimals == IF point = 0 THEN <<>> ELSE SubSeq(num, point + 1, Len(num))
    IN /\ whole # <<>>
       /\ \A i \in 1..Len(whole) : IsDigit(whole[i])
       /\ Len(whole) > 1 => whole[1] # "0"
       /\ \A i \in 1..Len(decimals) : IsDigit(decimals[i])
       /\ point # 0 => (Len(decimals) \in {1, 2} /\ decimals[Len(decimals)] # "0")

\* the value of such a numeral, in hundredths
Hundredths(num) ==
    LET point == PositionOf(".", num)
        decimals == IF point = 0 THEN <<>> ELSE SubSeq(num, point + 1, Len(num))
    IN DigitPrefix(num, 0) * 100
       + (IF Len(decimals) = 0 THEN 0
          ELSE IF Len(decimals) = 1 THEN 10 * DigitValue(decimals[1])
          ELSE 10 * DigitValue(decimals[1]) + DigitValue(decimals[2]))

\* text is bytes / 1024^i to the nearest hundredth, trailing zeros dropped,
\* a blank and the i-th unit, for the i with 1024^i <= bytes < 1024^(i+1)
IsSizeText(text, bytes) ==
    LET blank == PositionOf(" ", text)
        num == SubSeq(text, 1, blank - 1)
        i == CHOOSE j \in 0..3 :
                /\ Power(1024, j) <= bytes
                /\ (j = 3 \/ bytes < Power(1024, j + 1))
        unit == Power(1024, i)
    IN /\ blank > 1
       /\ Len(text) = blank + 1
       /\ text[Len(text)] = <<"Bytes", "KB", "MB", "GB">>[i + 1]
       /\ IsShortDecimal(num)
       /\ 2 * (bytes * 100 - Hundredths(num) * unit) <= unit
       /\ 2 * (Hundredths(num) * unit - bytes * 100) <= unit

\* C15: the size text of an encoded result: 0 gives "0 Bytes", 1536 gives
\* "1.5 KB", 1048576 gives "1 MB", and every size >= 1 gives the size in its
\* unit rounded to at most two decimals, trailing zeros dropped.
C15_FormatFileSize ==
    [][InfoWritten =>
         LET bytes == compressedBlob'.size
         IN /\ bytes = 0 => compressedInfo' = <<"0", " ", "Bytes">>
            /\ bytes = 1536 => compressedInfo' = <<"1", ".", "5", " ", "KB">>
            /\ bytes = 1048576 => compressedInfo' = <<"1", " ", "MB">>
            /\ bytes >= 1 => IsSizeText(compressedInfo', bytes)]_vars

\* a result of 1536 bytes is shown with one decimal
C15_Witness ==
    compressedBlob.size = 1536 /\ compressedInfo = <<"1", ".", "5", " ", "KB">>

EncodeUsesState ==
    /\ effect.img = originalImage
    /\ effect.format = outputFormat
    /\ effect.quality.defined =>
          (effect.quality.num = quality /\ effect.quality.den = 100)
    /\ effect.width = EffectiveWidth(originalImage, widthInput)
    /\ effect.height = EffectiveHeight(originalImage, heightInput)

\* C13: with an image loaded, a format click and the end of a load invoke an
\* encode at once, a quality or dimension edit whose timer is pending is
\* followed by an encode (while requests are left within MaxRequests), and
\* every encode uses the parameters in force when it is invoked, so the last
\* one uses those left by the last change.
C13_ChangeIsEncoded ==
    /\ [](effect.kind = "encode" => EncodeUsesState)
    /\ [][((\E fmt \in Formats : FormatClick(fmt)) /\ originalImage # NoFile)
            => effect'.kind = "encode"]_vars
    /\ [][((\E f \in Files : ImgOnload(f)) /\ originalFile # NoFile)
            => effect'.kind = "encode"]_vars
    /\ (timers > 0 /\ originalImage # NoFile /\ issued < MaxRequests
          /\ effect.kind # "encode")
         ~> effect.kind = "encode"

\* a timer's encode used the quality and the width left by the edits
C13_Witness ==
    /\ effect.kind = "encode"
    /\ timers = 0
    /\ quality = 90
    /\ effect.quality.num = 90
    /\ widthInput = <<"2">>
    /\ effect.width = 2

\* C14: the checkbox's handler changes state.lockAspectRatio and nothing
\* else (no field, no parameter, no image, no result, no timer, no encode);
\* with the lock off, an edit of one dimension field leaves the other as it
\* was.
C14_LockOnlyTogglesCoupling ==
    [][/\ (\E checked \in BOOLEAN : AspectRatioChange(checked))
            => (/\ UNCHANGED <<originalFile, originalImage, compressedBlob,
                               quality, outputFormat, aspectRatio, domVars,
                               asyncVars>>
                /\ effect'.kind # "encode")
       /\ ~lockAspectRatio =>
            /\ (\E t \in TypedValues : WidthInput(t))
                  => heightInput' = heightInput
            /\ (\E t \in TypedValues : HeightInput(t))
                  => widthInput' = widthInput]_vars

\* with the lock off and a.b.jpg (1x4) loaded, 2 was typed as width and the
\* height is still 4
C14_Witness ==
    /\ ~lockAspectRatio
    /\ originalImage = 2
    /\ widthInput = <<"2">>
    /\ heightInput = <<"4">>
    /\ timers > 0

\* C16: at most one toBlob call issued by compressImage awaits its callback.
C16_OneEncodeInFlight == Len(inflight) <= 1

\* C18: an encoded result is held only together with a source file and a
\* source image, so that updateCompressedInfo and the download action find
\* state.originalFile when they read its size and name.
C18_ResultImpliesSource ==
    compressedBlob # NoBlob =>
       (originalFile # NoFile /\ originalImage # NoFile)

\* C19: a delivered file is named after the source file its blob was made
\* from, with the extension of the format the blob was encoded with.
C19_FilenameMatchesBlob ==
    effect.kind = "download" =>
       effect.filename =
          StripExtension(FileTable[effect.blob.img].name)
          \o <<"_compressed", ".">> \o FormatExtension(effect.blob.format)

\* C20: when an encode is issued, state.originalFile and state.originalImage
\* are the same file, the one drawn; when an encode completes, the savings
\* are computed from the size of the file whose image was drawn.
C20_FileAndImageAgree ==
    /\ [](effect.kind = "encode" =>
            (originalFile = originalImage /\ effect.img = originalFile))
    /\ [][InfoWritten =>
            (/\ originalFile = originalImage
             /\ savings' = SavingsText(compressedBlob'.size,
                                       FileTable[compressedBlob'.img].size))]_vars

====
